---- MODULE Spec2Model ----
(***************************************************************************)
(* colibra: fixed-size Vector<l, T> and Matrix<rows, columns, T>.          *)
(*                                                                         *)
(* Element values.  An element is a record [ty, n, d]: ty is the C++       *)
(* element type ("int" or "double"), n/d the value as a reduced fraction.  *)
(* An int has d = 1.  A double with d = 0 is the IEEE not-a-number, which  *)
(* compares unequal to everything, itself included.  The sampled doubles   *)
(* are small dyadic fractions, whose sums and products are exact in        *)
(* binary floating point; the sampled ints stay far below 2^31, so no      *)
(* signed overflow occurs.                                                 *)
(*                                                                         *)
(* A program the compiler rejects has no behaviour; an operation whose     *)
(* instantiation is ill-formed is recorded as the outcome "ill_formed"     *)
(* and changes no object.                                                  *)
(***************************************************************************)
EXTENDS Integers, Sequences, FiniteSets, TLC

\* ------------------------------------------------------------------ bounds
MaxLen == 2
MaxOver == 2
MaxRows == 2
MaxCols == 2

\* ------------------------------------------------------------ element type
Types == {"int", "double"}

Abs(x) == IF x < 0 THEN -x ELSE x

RECURSIVE GCD(_, _)
GCD(x, y) == IF y = 0 THEN x ELSE GCD(y, x % y)

Rat(ty, n, d) ==
    LET g == GCD(Abs(n), d)
    IN  [ty |-> ty, n |-> n \div g, d |-> d \div g]

Int_(n) == [ty |-> "int", n |-> n, d |-> 1]
Dbl(n, d) == Rat("double", n, d)
NaN == [ty |-> "double", n |-> 0, d |-> 0]
IsNaN(x) == x.d = 0

\* T(): value-initialisation of an arithmetic type
Zero(T) == [ty |-> T, n |-> 0, d |-> 1]

\* non-zero sample values; zero elements come from value-initialisation
IntSample == {Int_(2)}
DoubleSample == {Dbl(1, 2), NaN}
Sample(T) == IF T = "int" THEN IntSample ELSE DoubleSample
Scalars == {Int_(2), Dbl(1, 2), NaN}

\* std::common_type_t<T, S> for the arithmetic types
common_type_t(T, S) == IF T = "double" \/ S = "double" THEN "double" ELSE "int"

\* truncation toward zero
Trunc(n, d) == IF n >= 0 THEN n \div d ELSE -((-n) \div d)

\* implicit conversion of x to type R; ub is the outcome of the undefined
\* conversion of a NaN to an integer type
convert_ub(R, x, ub) ==
    IF x.ty = R THEN x
    ELSE IF R = "double" THEN [ty |-> "double", n |-> x.n, d |-> 1]
    ELSE IF IsNaN(x) THEN ub
    ELSE Int_(Trunc(x.n, x.d))

\* conversions to the common type never narrow
convert(R, x) == convert_ub(R, x, Zero(R))

\* built-in arithmetic on two operands of the same type
builtin_mul(x, y) ==
    IF IsNaN(x) \/ IsNaN(y) THEN NaN ELSE Rat(x.ty, x.n * y.n, x.d * y.d)

builtin_add(x, y) ==
    IF IsNaN(x) \/ IsNaN(y) THEN NaN
    ELSE Rat(x.ty, x.n * y.d + y.n * x.d, x.d * y.d)

builtin_sub(x, y) ==
    IF IsNaN(x) \/ IsNaN(y) THEN NaN
    ELSE Rat(x.ty, x.n * y.d - y.n * x.d, x.d * y.d)

builtin_neg(x) == IF IsNaN(x) THEN NaN ELSE [x EXCEPT !.n = -x.n]

\* built-in == on two operands of the same type
builtin_eq(x, y) == ~IsNaN(x) /\ ~IsNaN(y) /\ x.n = y.n /\ x.d = y.d

\* std::multiplies<R>, std::plus<R>, std::minus<R>, std::negate<T>
multiplies(R, x, y) == builtin_mul(convert(R, x), convert(R, y))
plus(R, x, y) == builtin_add(convert(R, x), convert(R, y))
minus(R, x, y) == builtin_sub(convert(R, x), convert(R, y))
negate(T, x) == builtin_neg(convert(T, x))

\* a function object std::multiplies<R>(), std::plus<R>() or std::minus<R>()
\* and its call operator
functor(name, R) == [name |-> name, R |-> R]

invoke(op, x, y) ==
    CASE op.name = "multiplies" -> multiplies(op.R, x, y)
      [] op.name = "plus" -> plus(op.R, x, y)
      [] op.name = "minus" -> minus(op.R, x, y)

\* ------------------------------------------------------------ Vector<l, T>
\* std::array<T, l> of the values arr; C++ index p is arr[p + 1]
Vec(l, T, arr) == [l |-> l, T |-> T, m_array |-> arr]

NoVector == Vec(0, "int", <<>>)

SeqsOf(S, lo, hi) == UNION {[1..k -> S] : k \in lo..hi}

\* Vector(T const val1, P const... vals): m_array {val1, vals...} is
\* aggregate initialisation of std::array<T, l>; it needs at least val1, is
\* ill-formed with more than l initialisers or a narrowing one, and
\* value-initialises the elements that have no initialiser
\* variant: the initialiser count is checked against l + 1
ctor_values_well_formed_loose(l, T, vals) ==
    /\ Len(vals) >= 1
    /\ Len(vals) <= l + 1
    /\ \A i \in 1..Len(vals) : vals[i].ty = T

ctor_values_well_formed(l, T, vals) ==
    /\ Len(vals) >= 1
    /\ Len(vals) <= l
    /\ \A i \in 1..Len(vals) : vals[i].ty = T

\* variant: the pack is expanded in reverse order
ctor_values_reversed(l, T, vals) ==
    Vec(l, T, [i \in 1..l |->
                 IF i <= Len(vals) THEN vals[Len(vals) + 1 - i] ELSE Zero(T)])

ctor_values(l, T, vals) ==
    Vec(l, T, [i \in 1..l |-> IF i <= Len(vals) THEN vals[i] ELSE Zero(T)])

\* variant: m_array is default-initialised, the last element keeps a stale 1
ctor_default_stale(l, T) ==
    Vec(l, T, [i \in 1..l |-> IF i = l THEN [ty |-> T, n |-> 1, d |-> 1]
                                      ELSE Zero(T)])

\* Vector(): m_array()
ctor_default(l, T) == Vec(l, T, [i \in 1..l |-> Zero(T)])

rank(v) == v.l

\* variant: the range check is off by one
at_throws_off_by_one(v, p) == ~(p < v.l - 1)

\* std::array::at: throws std::out_of_range unless p < size()
at_throws(v, p) == ~(p < v.l)

at(v, p) == v.m_array[p + 1]

\* apply_each(const S &fac, const Op &op, index_sequence)
apply_each_fac(v, fac, op) ==
    LET C == common_type_t(v.T, fac.ty)
    IN  Vec(v.l, C, [i \in 1..v.l |-> convert(C, invoke(op, v.m_array[i], fac))])

\* apply_each(const Vector<l, O> &other, const Op &op, index_sequence)
apply_each_vec(v, other, op) ==
    LET C == common_type_t(v.T, other.T)
    IN  Vec(v.l, C,
            [i \in 1..v.l |->
               convert(C, invoke(op, v.m_array[i], at(other, i - 1)))])

\* sum(index_sequence): the left fold (... + m_array[Idx])
RECURSIVE fold_plus(_, _)
fold_plus(arr, k) ==
    IF k = 1 THEN arr[1] ELSE builtin_add(fold_plus(arr, k - 1), arr[k])

sum(v) == fold_plus(v.m_array, v.l)

\* operator*(const Vector<l, S> &other): sum is a private member of
\* Vector<l, common_type_t<T, S>>, accessible from Vector<l, T> only when
\* the two are the same class
operator_mul_vec_well_formed(v, other) == common_type_t(v.T, other.T) = v.T

operator_mul_vec(v, other) ==
    LET R == common_type_t(v.T, other.T)
    IN  convert(R, sum(apply_each_vec(v, other, functor("multiplies", R))))

\* variant: the result keeps the element type T of the vector
operator_mul_scalar_unpromoted(v, scalar) ==
    LET R == common_type_t(v.T, scalar.ty)
    IN  Vec(v.l, v.T,
            [i \in 1..v.l |->
               convert(v.T, multiplies(R, v.m_array[i], scalar))])

\* operator*(const S &scalar)
operator_mul_scalar(v, scalar) ==
    LET R == common_type_t(v.T, scalar.ty)
        r == apply_each_fac(v, scalar, functor("multiplies", R))
    IN  Vec(v.l, R, [i \in 1..v.l |-> convert(R, r.m_array[i])])

\* operator+(const Vector<l, S> &other)
operator_plus(v, other) ==
    LET R == common_type_t(v.T, other.T)
    IN  apply_each_vec(v, other, functor("plus", R))

\* variant: the operands are taken in the wrong order
operator_minus_swapped(v, other) ==
    LET R == common_type_t(v.T, other.T)
    IN  apply_each_vec(other, v, functor("minus", R))

\* operator-(const Vector<l, S> &other)
operator_minus(v, other) ==
    LET R == common_type_t(v.T, other.T)
    IN  apply_each_vec(v, other, functor("minus", R))

\* the call operator of the function object std::negate<T>()
invoke_unary(op, x) == negate(op.R, x)

\* apply_each(const Op &op, index_sequence): Vector {op(m_array[Idx])...}
apply_each_unary(v, op) ==
    Vec(v.l, v.T, [i \in 1..v.l |-> convert(v.T, invoke_unary(op, v.m_array[i]))])

\* variant: the elements are copied without applying the operation
operator_neg_copy(v) == Vec(v.l, v.T, [i \in 1..v.l |-> v.m_array[i]])

\* operator-()
operator_neg(v) == apply_each_unary(v, functor("negate", v.T))

\* operator==(Vector const &other): std::array operator==, defined only
\* between vectors of one class
compare_well_formed(v, other) == v.T = other.T

\* variant: the comparison stops before the last element
operator_eq_short(v, other) ==
    \A i \in 1..(v.l - 1) : builtin_eq(v.m_array[i], other.m_array[i])

operator_eq(v, other) ==
    \A i \in 1..v.l : builtin_eq(v.m_array[i], other.m_array[i])

\* operator!=(Vector const &other): std::array operator!= is !(x == y)
operator_ne(v, other) ==
    ~(\A i \in 1..v.l : builtin_eq(v.m_array[i], other.m_array[i]))

\* ---------------------------------------------------------------- streams
\* The contents of a std::ostream are a sequence of characters.
DigitChar == <<"0", "1", "2", "3", "4", "5", "6", "7", "8", "9">>

RECURSIVE Digits(_)
Digits(n) ==
    IF n < 10 THEN <<DigitChar[n + 1]>>
    ELSE Digits(n \div 10) \o <<DigitChar[(n % 10) + 1]>>

\* the decimals of the fraction f / d of a dyadic d <= 4, as %g prints them
Decimals(f, d) ==
    LET h == (f * 100) \div d
    IN  IF h % 10 = 0 THEN <<DigitChar[(h \div 10) + 1]>> ELSE Digits(h)

\* os << x for an int or a double x, in the default format of the stream
insert_value(os, x) ==
    IF IsNaN(x) THEN os \o <<"n", "a", "n">>
    ELSE os \o (IF x.n < 0 THEN <<"-">> ELSE <<>>)
            \o Digits(Abs(x.n) \div x.d)
            \o (IF Abs(x.n) % x.d = 0 THEN <<>>
                ELSE <<".">> \o Decimals(Abs(x.n) % x.d, x.d))

\* the for loop of operator<<: os << ", " << *it from it to cend()
RECURSIVE stream_rest(_, _, _)
stream_rest(os, arr, it) ==
    IF it > Len(arr) THEN os
    ELSE stream_rest(insert_value(os \o <<",", " ">>, arr[it]), arr, it + 1)

\* variant: the loop starts at cbegin()
stream_vector_from_begin(os, v) ==
    IF v.l > 1
    THEN stream_rest(insert_value(os \o <<"{", " ">>, v.m_array[1]),
                     v.m_array, 1) \o <<" ", "}">>
    ELSE insert_value(os \o <<"{", " ">>, v.m_array[1]) \o <<" ">>

\* operator<<(std::ostream &os, const Vector<l, T> &vec)
stream_vector(os, v) ==
    IF v.l > 1
    THEN stream_rest(insert_value(os \o <<"{", " ">>, v.m_array[1]),
                     v.m_array, 2) \o <<" ", "}">>
    ELSE insert_value(os \o <<"{", " ">>, v.m_array[1]) \o <<" ">>

\* ------------------------------------------------ Matrix<rows, columns, T>
Mat(rows, columns, T, arr) ==
    [rows |-> rows, columns |-> columns, T |-> T, m_array |-> arr]

\* the deduction guide: Matrix<1 + sizeof...(P), N, R>
deduction_guide(lits) ==
    [rows |-> Len(lits), columns |-> Len(lits[1]), T |-> lits[1][1].ty]

\* assign_array(row, nested_list): m_array[row][i] = nested_list[i]
assign_array(arr, r, list, T, ub) ==
    [arr EXCEPT ![r + 1] =
        [i \in 1..Len(list) |-> convert_ub(T, list[i], ub)]]

\* assign_recursive(row, nested_list, nested_others...)
RECURSIVE assign_recursive(_, _, _, _, _)
assign_recursive(arr, r, lists, T, ub) ==
    IF Len(lists) = 1
    THEN assign_array(arr, r, lists[1], T, ub)
    ELSE assign_recursive(assign_array(arr, r, lists[1], T, ub),
                          r + 1, Tail(lists), T, ub)

\* variant: the remaining rows are assigned from row 0 on
ctor_matrix_from_row_0(lits, ub) ==
    LET g == deduction_guide(lits)
        zero == [r \in 1..g.rows |-> [i \in 1..g.columns |-> Zero(g.T)]]
        first == [zero EXCEPT ![1] = [i \in 1..g.columns |-> lits[1][i]]]
    IN  Mat(g.rows, g.columns, g.T,
            IF Len(lits) > 1
            THEN assign_recursive(first, 0, Tail(lits), g.T, ub)
            ELSE first)

\* Matrix(nested_list, nested_others...) on the deduced class
ctor_matrix(lits, ub) ==
    LET g == deduction_guide(lits)
        zero == [r \in 1..g.rows |-> [i \in 1..g.columns |-> Zero(g.T)]]
        first == [zero EXCEPT ![1] = [i \in 1..g.columns |-> lits[1][i]]]
    IN  Mat(g.rows, g.columns, g.T,
            IF Len(lits) > 1
            THEN assign_recursive(first, 1, Tail(lits), g.T, ub)
            ELSE first)

width(m) == m.columns

height(m) == m.rows

\* variant: the row is returned by reference
matrix_index_by_reference(m, p) ==
    [alias |-> TRUE, p |-> p, arr |-> m.m_array[p + 1]]

\* operator[](const size_t p): returns the row by value, a new array object
matrix_index(m, p) == [alias |-> FALSE, p |-> p, arr |-> m.m_array[p + 1]]

\* begin()/end(): the entries met by a range-for over the rows and a nested
\* range-for over each row
RECURSIVE entries(_, _)
entries(arr, k) == IF k = 0 THEN <<>> ELSE entries(arr, k - 1) \o arr[k]

iterate(m) == entries(m.m_array, m.rows)

\* ------------------------------------------------------------------ state
\* vec   the client's two vector objects, named "a" and "b"
\* call  the operation evaluated last and its arguments
\* res   what that operation returned, threw, or that it was ill-formed
\* mat   the client's matrix object
\* row   the array object returned by the last Matrix::operator[]
VARIABLES vec, call, res, mat, row

vars == <<vec, call, res, mat, row>>

Names == {"a", "b"}

Call(op, x, y, p, k, args) ==
    [op |-> op, x |-> x, y |-> y, p |-> p, k |-> k, args |-> args]

Res(kind, val, v, b) ==
    [kind |-> kind, val |-> val, vec |-> v, b |-> b, text |-> <<>>]

NoVal == Zero("int")
ResNone == Res("none", NoVal, NoVector, FALSE)
ResIllFormed == Res("ill_formed", NoVal, NoVector, FALSE)
ResThrow == Res("out_of_range", NoVal, NoVector, FALSE)
ResElem(x) == Res("elem", x, NoVector, FALSE)
ResScalar(x) == Res("scalar", x, NoVector, FALSE)
ResVector(v) == Res("vector", NoVal, v, FALSE)
ResBool(b) == Res("bool", NoVal, NoVector, b)
ResText(t) == [Res("text", NoVal, NoVector, FALSE) EXCEPT !.text = t]

\* what the stream holds before a vector or a matrix is inserted
StreamPrefixes == {<<>>, <<"v", "=">>}

NoMatrix == [rows |-> 0, columns |-> 0, T |-> "int", m_array |-> <<>>]
NoRow == [alias |-> FALSE, p |-> 0, arr |-> <<>>]

\* initialiser lists a client passes to the value constructor of a
\* Vector<l, T>: up to l values of type T, l + 1 values of type T, and one
\* value of the other type
CtorInputs(l, T) ==
    SeqsOf(Sample(T), 1, l)
        \cup {[i \in 1..(l + 1) |-> x] : x \in Sample(T)}
        \cup {<<x>> : x \in Sample(CHOOSE S \in Types : S # T)}

Indices(l) == 0..(l - 1 + MaxOver)

Init ==
    /\ \E l \in 1..MaxLen, Ta \in Types, Tb \in Types :
            vec = [x \in Names |->
                     IF x = "a" THEN ctor_default(l, Ta) ELSE ctor_default(l, Tb)]
    /\ call = Call("none", "a", "a", 0, NoVal, <<>>)
    /\ res = ResNone
    /\ mat = NoMatrix
    /\ row = NoRow

\* Vector<l, T> x {};
DefaultCtor(x) ==
    /\ vec' = [vec EXCEPT ![x] = ctor_default(vec[x].l, vec[x].T)]
    /\ call' = Call("ctor_default", x, x, 0, NoVal, <<>>)
    /\ res' = ResNone
    /\ UNCHANGED <<mat, row>>

\* Vector<l, T> x {vals...};
ValueCtor(x, vals) ==
    /\ call' = Call("ctor_values", x, x, 0, NoVal, vals)
    /\ IF ctor_values_well_formed(vec[x].l, vec[x].T, vals)
       THEN /\ vec' = [vec EXCEPT ![x] = ctor_values(vec[x].l, vec[x].T, vals)]
            /\ res' = ResNone
       ELSE /\ vec' = vec
            /\ res' = ResIllFormed
    /\ UNCHANGED <<mat, row>>

\* Vector y = x;   (the implicit copy constructor)
Copy(x, y) ==
    /\ x # y
    /\ call' = Call("copy", x, y, 0, NoVal, <<>>)
    /\ IF vec[x].T = vec[y].T
       THEN /\ vec' = [vec EXCEPT ![y] = vec[x]]
            /\ res' = ResNone
       ELSE /\ vec' = vec
            /\ res' = ResIllFormed
    /\ UNCHANGED <<mat, row>>

\* x[p];   (operator[] const, checked)
At(x, p) ==
    /\ call' = Call("at", x, x, p, NoVal, <<>>)
    /\ res' = IF at_throws(vec[x], p) THEN ResThrow ELSE ResElem(at(vec[x], p))
    /\ UNCHANGED <<vec, mat, row>>

\* variant: vectors of one class share their storage
Write_shared(x, p, k) ==
    /\ call' = Call("write", x, x, p, k, <<>>)
    /\ IF at_throws(vec[x], p)
       THEN /\ vec' = vec
            /\ res' = ResThrow
       ELSE /\ vec' = [y \in Names |->
                        IF vec[y].T = vec[x].T
                        THEN [vec[y] EXCEPT !.m_array[p + 1] = k]
                        ELSE vec[y]]
            /\ res' = ResNone
    /\ UNCHANGED <<mat, row>>

\* x[p] = k;   (operator[], checked, then assignment through the reference)
Write(x, p, k) ==
    /\ call' = Call("write", x, x, p, k, <<>>)
    /\ IF at_throws(vec[x], p)
       THEN /\ vec' = vec
            /\ res' = ResThrow
       ELSE /\ vec' = [vec EXCEPT ![x].m_array[p + 1] = k]
            /\ res' = ResNone
    /\ UNCHANGED <<mat, row>>

\* x == y
Eq(x, y) ==
    /\ call' = Call("eq", x, y, 0, NoVal, <<>>)
    /\ res' = IF compare_well_formed(vec[x], vec[y])
              THEN ResBool(operator_eq(vec[x], vec[y]))
              ELSE ResIllFormed
    /\ UNCHANGED <<vec, mat, row>>

\* x != y
Ne(x, y) ==
    /\ call' = Call("ne", x, y, 0, NoVal, <<>>)
    /\ res' = IF compare_well_formed(vec[x], vec[y])
              THEN ResBool(operator_ne(vec[x], vec[y]))
              ELSE ResIllFormed
    /\ UNCHANGED <<vec, mat, row>>

\* x * y
Dot(x, y) ==
    /\ call' = Call("dot", x, y, 0, NoVal, <<>>)
    /\ res' = IF operator_mul_vec_well_formed(vec[x], vec[y])
              THEN ResScalar(operator_mul_vec(vec[x], vec[y]))
              ELSE ResIllFormed
    /\ UNCHANGED <<vec, mat, row>>

\* x * k
ScalarMul(x, k) ==
    /\ call' = Call("scalar_mul", x, x, 0, k, <<>>)
    /\ res' = ResVector(operator_mul_scalar(vec[x], k))
    /\ UNCHANGED <<vec, mat, row>>

\* x + y
Add(x, y) ==
    /\ call' = Call("add", x, y, 0, NoVal, <<>>)
    /\ res' = ResVector(operator_plus(vec[x], vec[y]))
    /\ UNCHANGED <<vec, mat, row>>

\* x - y
Sub(x, y) ==
    /\ call' = Call("sub", x, y, 0, NoVal, <<>>)
    /\ res' = ResVector(operator_minus(vec[x], vec[y]))
    /\ UNCHANGED <<vec, mat, row>>

\* -x
Neg(x) ==
    /\ call' = Call("neg", x, x, 0, NoVal, <<>>)
    /\ res' = ResVector(operator_neg(vec[x]))
    /\ UNCHANGED <<vec, mat, row>>

\* -(-x) == x
NegNegEq(x) ==
    /\ call' = Call("neg_neg_eq", x, x, 0, NoVal, <<>>)
    /\ res' = ResBool(operator_eq(operator_neg(operator_neg(vec[x])), vec[x]))
    /\ UNCHANGED <<vec, mat, row>>

\* os << x;   (os holds pre)
Stream(x, pre) ==
    /\ call' = Call("stream", x, x, 0, NoVal, pre)
    /\ res' = ResText(stream_vector(pre, vec[x]))
    /\ UNCHANGED <<vec, mat, row>>

\* Either vector is constructed, copied and written; the expressions are
\* evaluated with "a" on the left and either vector on the right (the two
\* element types are chosen independently, so this loses no combination).
Next ==
    \/ \E x \in Names : DefaultCtor(x)
    \/ \E x \in Names : \E vals \in CtorInputs(vec[x].l, vec[x].T) : ValueCtor(x, vals)
    \/ \E x \in Names, y \in Names : Copy(x, y)
    \/ \E p \in Indices(vec["a"].l) : At("a", p)
    \/ \E x \in Names : \E p \in Indices(vec[x].l) : \E k \in Sample(vec[x].T) : Write(x, p, k)
    \/ \E y \in Names : Eq("a", y)
    \/ \E y \in Names : Ne("a", y)
    \/ \E y \in Names : Dot("a", y)
    \/ \E k \in Scalars : ScalarMul("a", k)
    \/ \E y \in Names : Add("a", y)
    \/ \E y \in Names : Sub("a", y)
    \/ Neg("a")
    \/ NegNegEq("a")
    \/ \E pre \in StreamPrefixes : Stream("a", pre)

Spec == Init /\ [][Next]_vars

\* ----------------------------------------------------------- matrix stream
\* the parameter of the lambda print_row: std::array<T, columns> &row
print_row_param == [const |-> FALSE]

\* its argument: the loop variable auto const &row over the rows of the
\* const Matrix &mat
print_row_arg == [const |-> TRUE]

\* a reference to non-const does not bind to a const object
reference_binds(param, arg) == param.const \/ ~arg.const

\* operator<<(std::ostream &, const Matrix &) is instantiable only if the
\* call print_row(row) is well-formed
stream_matrix_well_formed == reference_binds(print_row_param, print_row_arg)

\* for (const auto &item : row) { os << item; if (not the last) os << ", "; }
RECURSIVE print_items(_, _, _)
print_items(os, r, k) ==
    IF k > Len(r) THEN os
    ELSE print_items(insert_value(os, r[k])
                        \o (IF k # Len(r) THEN <<",", " ">> ELSE <<>>), r, k + 1)

\* the body of print_row
print_row(os, r) == print_items(os \o <<"{">>, r, 1) \o <<"}">>

\* for (auto const &row : mat.m_array) { print_row(row); if (not the last)
\* os << ",\n"; }
RECURSIVE print_rows(_, _, _)
print_rows(os, arr, k) ==
    IF k > Len(arr) THEN os
    ELSE print_rows(print_row(os, arr[k])
                        \o (IF k # Len(arr) THEN <<",", "\n">> ELSE <<>>), arr, k + 1)

\* the body of operator<<(std::ostream &, const Matrix &)
stream_matrix(os, m) == print_rows(os \o <<"{">>, m.m_array, 1) \o <<"}">>

\* ----------------------------------------------------------- matrix client
MatIntSample == {Int_(1), Int_(2)}
MatDoubleSample == {Dbl(3, 2), NaN}
MatSample(T) == IF T = "int" THEN MatIntSample ELSE MatDoubleSample

\* what the undefined conversion of a NaN to int may produce
UbSample == {Int_(0), Int_(-2147483647 - 1)}

\* row literals: each row is a braced list of N values of one type, any
\* ints or N times the same double; the rows may differ in type
RowLits(N) ==
    [1..N -> MatIntSample] \cup {[i \in 1..N |-> x] : x \in MatDoubleSample}

MatrixInputs ==
    UNION {[1..R -> RowLits(N)] : R \in 1..MaxRows, N \in 1..MaxCols}

\* Matrix m = {lits...};
MatrixInit ==
    /\ \E lits \in MatrixInputs, ub \in UbSample :
            /\ mat = ctor_matrix(lits, ub)
            /\ call = Call("ctor_matrix", "a", "a", 0, NoVal, lits)
    /\ res = ResNone
    /\ row = NoRow
    /\ vec = [x \in Names |-> NoVector]

\* auto row = m[p];   (p < rows: an index outside is undefined behaviour)
RowAccess(p) ==
    /\ p < height(mat)
    /\ row' = matrix_index(mat, p)
    /\ call' = Call("row", "a", "a", p, NoVal, <<>>)
    /\ res' = ResNone
    /\ UNCHANGED <<vec, mat>>

\* the assignment obj[c] = x to the array object h denotes
store(h, c, x) ==
    /\ row' = [h EXCEPT !.arr[c + 1] = x]
    /\ mat' = IF h.alias
              THEN [mat EXCEPT !.m_array[h.p + 1][c + 1] = x]
              ELSE mat

\* row[c] = x;
RowWrite(c, x) ==
    /\ row # NoRow
    /\ c < width(mat)
    /\ store(row, c, x)
    /\ call' = Call("row_write", "a", "a", c, x, <<>>)
    /\ res' = ResNone
    /\ UNCHANGED vec

\* m[p][c] = x;
ChainedWrite(p, c, x) ==
    /\ p < height(mat)
    /\ c < width(mat)
    /\ store(matrix_index(mat, p), c, x)
    /\ call' = Call("chained_write", "a", "a", c, x, <<>>)
    /\ res' = ResNone
    /\ UNCHANGED vec

\* for (const auto &r : m) for (const auto &entry : r) ...
Iterate ==
    /\ call' = Call("iterate", "a", "a", 0, NoVal, <<>>)
    /\ res' = ResVector(Vec(mat.rows * mat.columns, mat.T, iterate(mat)))
    /\ UNCHANGED <<vec, mat, row>>

\* os << m;   (os holds pre)
StreamMatrix(pre) ==
    /\ call' = Call("stream_matrix", "a", "a", 0, NoVal, pre)
    /\ res' = IF stream_matrix_well_formed
              THEN ResText(stream_matrix(pre, mat))
              ELSE ResIllFormed
    /\ UNCHANGED <<vec, mat, row>>

MatrixNext ==
    \/ \E p \in 0..(MaxRows - 1) : RowAccess(p)
    \/ \E c \in 0..(MaxCols - 1) : \E x \in MatSample(mat.T) : RowWrite(c, x)
    \/ \E p \in 0..(MaxRows - 1), c \in 0..(MaxCols - 1) :
            \E x \in MatSample(mat.T) : ChainedWrite(p, c, x)
    \/ Iterate
    \/ \E pre \in StreamPrefixes : StreamMatrix(pre)

MatrixSpec == MatrixInit /\ [][MatrixNext]_vars

\* ------------------------------------------------------------- properties
\* r is the number x + y, x - y, x * y in the type R, stated on the
\* fractions themselves
IsSumOf(r, R, x, y) ==
    /\ r.ty = R
    /\ IF IsNaN(x) \/ IsNaN(y) THEN IsNaN(r)
       ELSE ~IsNaN(r) /\ r.n * x.d * y.d = (x.n * y.d + y.n * x.d) * r.d

IsDifferenceOf(r, R, x, y) ==
    /\ r.ty = R
    /\ IF IsNaN(x) \/ IsNaN(y) THEN IsNaN(r)
       ELSE ~IsNaN(r) /\ r.n * x.d * y.d = (x.n * y.d - y.n * x.d) * r.d

IsProductOf(r, R, x, y) ==
    /\ r.ty = R
    /\ IF IsNaN(x) \/ IsNaN(y) THEN IsNaN(r)
       ELSE ~IsNaN(r) /\ r.n * x.d * y.d = x.n * y.n * r.d

\* the sum over i in [0, k) of a[i] * b[i] in the type R
RECURSIVE InnerProduct(_, _, _, _)
InnerProduct(a, b, R, k) ==
    IF k = 0 THEN Zero(R)
    ELSE builtin_add(multiplies(R, a.m_array[k], b.m_array[k]),
                     InnerProduct(a, b, R, k - 1))

\* C1: a vector constructed from exactly N values has rank N and checked
\* access at every index i in [0, N) returns the i-th supplied value
C1_ReadBack ==
    (/\ call.op = "ctor_values"
     /\ res.kind = "none"
     /\ Len(call.args) = vec[call.x].l)
    => /\ rank(vec[call.x]) = Len(call.args)
       /\ \A i \in 0..(Len(call.args) - 1) :
            /\ ~at_throws(vec[call.x], i)
            /\ at(vec[call.x], i) = call.args[i + 1]

C1_Witness ==
    /\ call.op = "ctor_values"
    /\ res.kind = "none"
    /\ Len(call.args) = vec[call.x].l
    /\ Len(call.args) >= 2
    /\ call.args[1] # call.args[2]

\* C2: checked access throws out_of_range exactly for the indices p >= N,
\* and a throwing access leaves both vectors as they were
C2_CheckedAccess ==
    [][call'.op \in {"at", "write"}
        => /\ (res'.kind = "out_of_range") <=> (call'.p >= rank(vec[call'.x]))
           /\ (call'.p < rank(vec[call'.x]) /\ call'.op = "at")
                => res' = ResElem(vec[call'.x].m_array[call'.p + 1])
           /\ (res'.kind = "out_of_range") => vec' = vec]_vars

C2_Witness ==
    /\ call.op = "at"
    /\ res.kind = "out_of_range"
    /\ call.p = rank(vec[call.x])
    /\ \E i \in 1..rank(vec[call.x]) : vec[call.x].m_array[i] # Zero(vec[call.x].T)

\* C3 as stated: every value list whose length differs from N is rejected
C3_ExactCount ==
    (call.op = "ctor_values" /\ Len(call.args) # vec[call.x].l)
        => res.kind = "ill_formed"

\* C3: a value list longer than N is rejected; a list of 1 <= k <= N values
\* of type T is accepted, its values become elements 0..k-1 and the other
\* N - k elements are T's zero
C3_AtMostN ==
    call.op = "ctor_values"
    => LET v == vec[call.x]
           k == Len(call.args)
       IN  /\ k > v.l => res.kind = "ill_formed"
           /\ (k <= v.l /\ \A i \in 1..k : call.args[i].ty = v.T)
                => /\ res.kind = "none"
                   /\ rank(v) = v.l
                   /\ Len(v.m_array) = v.l
                   /\ \A i \in 1..k : v.m_array[i] = call.args[i]
                   /\ \A i \in (k + 1)..v.l : v.m_array[i] = Zero(v.T)

C3_Witness ==
    /\ call.op = "ctor_values"
    /\ res.kind = "none"
    /\ Len(call.args) < vec[call.x].l
    /\ call.args[1] # Zero(vec[call.x].T)

\* C4: a default-constructed Vector<N, T> has rank N and N elements, each
\* the zero of T
C4_DefaultZero ==
    [][call'.op = "ctor_default"
        => LET v == vec'[call'.x]
           IN  /\ rank(v) = vec[call'.x].l
               /\ v.T = vec[call'.x].T
               /\ Len(v.m_array) = rank(v)
               /\ \A i \in 0..(rank(v) - 1) :
                    /\ ~at_throws(v, i)
                    /\ at(v, i) = [ty |-> v.T, n |-> 0, d |-> 1]]_vars

C4_Witness ==
    /\ call.op = "ctor_default"
    /\ rank(vec[call.x]) >= 2
    /\ vec[call.x].T = "double"

\* the elements of v and w compare equal at every index
AllEqual(v, w) ==
    \A i \in 1..v.l :
        /\ ~IsNaN(v.m_array[i])
        /\ ~IsNaN(w.m_array[i])
        /\ v.m_array[i] = w.m_array[i]

\* C5 as stated: == is elementwise equality, != its negation, and v == v
\* holds for every vector v
C5_ReflexiveEquality ==
    (call.op \in {"eq", "ne"} /\ res.kind = "bool")
    => /\ call.op = "eq" => (res.b <=> AllEqual(vec[call.x], vec[call.y]))
       /\ call.op = "ne" => (res.b <=> ~AllEqual(vec[call.x], vec[call.y]))
       /\ (call.op = "eq" /\ call.x = call.y) => res.b

\* C5: == is elementwise equality and != its negation; v == v holds exactly
\* when every element of v compares equal to itself (no NaN element); two
\* vectors that differ at some index compare unequal
C5_Equality ==
    (call.op \in {"eq", "ne"} /\ res.kind = "bool")
    => LET v == vec[call.x]
           w == vec[call.y]
       IN  /\ call.op = "eq" => (res.b <=> AllEqual(v, w))
           /\ call.op = "ne" => (res.b <=> ~AllEqual(v, w))
           /\ (call.op = "eq" /\ call.x = call.y)
                => (res.b <=> \A i \in 1..v.l : ~IsNaN(v.m_array[i]))
           /\ (\E i \in 1..v.l : v.m_array[i] # w.m_array[i])
                => (res.b <=> call.op = "ne")

C5_Witness ==
    /\ call.op = "eq"
    /\ call.x = call.y
    /\ res.kind = "bool"
    /\ ~res.b

\* C6: a * b is the scalar sum of a[i] * b[i] in the promoted type, for any
\* two vectors of the same length, and leaves a and b as they were
C6_InnerProduct ==
    [][call'.op = "dot"
        => LET v == vec[call'.x]
               w == vec[call'.y]
               R == common_type_t(v.T, w.T)
           IN  /\ res' = ResScalar(InnerProduct(v, w, R, v.l))
               /\ vec' = vec]_vars

\* C7: a + b and a - b are new vectors of length N holding a[i] + b[i] and
\* a[i] - b[i]; a and b are left as they were
C7_AddSub ==
    [][call'.op \in {"add", "sub"}
        => LET v == vec[call'.x]
               w == vec[call'.y]
               R == common_type_t(v.T, w.T)
               r == res'.vec
           IN  /\ res'.kind = "vector"
               /\ rank(r) = rank(v)
               /\ Len(r.m_array) = rank(v)
               /\ r.T = R
               /\ \A i \in 1..v.l :
                    IF call'.op = "add"
                    THEN IsSumOf(r.m_array[i], R, v.m_array[i], w.m_array[i])
                    ELSE IsDifferenceOf(r.m_array[i], R, v.m_array[i], w.m_array[i])
               /\ vec' = vec]_vars

C7_Witness ==
    /\ call.op = "sub"
    /\ call.x # call.y
    /\ res.kind = "vector"
    /\ \E i \in 1..res.vec.l : res.vec.m_array[i].n < 0

\* C8: v * k is a vector of the same length whose i-th element is v[i] * k
\* in the common type of the element type and the scalar's type
C8_ScalarMul ==
    [][call'.op = "scalar_mul"
        => LET v == vec[call'.x]
               k == call'.k
               r == res'.vec
               R == IF v.T = "int" /\ k.ty = "int" THEN "int" ELSE "double"
           IN  /\ res'.kind = "vector"
               /\ rank(r) = rank(v)
               /\ Len(r.m_array) = rank(v)
               /\ r.T = R
               /\ \A i \in 1..v.l :
                    IsProductOf(r.m_array[i], R, v.m_array[i], k)]_vars

C8_Witness ==
    /\ call.op = "scalar_mul"
    /\ vec[call.x].T = "int"
    /\ call.k = Dbl(1, 2)
    /\ res.vec.T = "double"
    /\ \E i \in 1..res.vec.l : res.vec.m_array[i] = Dbl(1, 1)

\* row-major reading of the row literals
RECURSIVE Flatten(_)
Flatten(lits) == IF lits = <<>> THEN <<>> ELSE Head(lits) \o Flatten(Tail(lits))

\* e is the value x converted to the type T: x itself when it is of type T,
\* the same number when an int becomes a double, the number cut toward zero
\* when a double becomes an int (any int for a NaN)
IsConversionOf(e, T, x) ==
    /\ e.ty = T
    /\ x.ty = T => e = x
    /\ (x.ty = "int" /\ T = "double") => (e.d = 1 /\ e.n = x.n)
    /\ (x.ty = "double" /\ T = "int" /\ ~IsNaN(x))
         => /\ e.d = 1
            /\ Abs(e.n) * x.d <= Abs(x.n)
            /\ Abs(x.n) < (Abs(e.n) + 1) * x.d
            /\ (e.n # 0 => ((e.n > 0) <=> (x.n > 0)))

C10_RowCopy ==
    [][/\ call'.op = "row"
            => (row'.arr = mat.m_array[call'.p + 1] /\ mat' = mat)
       /\ call'.op \in {"row_write", "chained_write"}
            => (mat' = mat /\ row'.arr[call'.p + 1] = call'.k)]_vars

C10_Witness ==
    /\ call.op \in {"row_write", "chained_write"}
    /\ row.arr[call.p + 1] = call.k
    /\ mat.m_array[row.p + 1][call.p + 1] # call.k

\* the other of the two vectors
Other(x) == CHOOSE y \in Names : y # x

\* a write that did not throw changed element p of x and nothing else
WriteFrame ==
    (call'.op = "write" /\ res'.kind = "none")
        => LET x == call'.x
           IN  /\ vec'[Other(x)] = vec[Other(x)]
               /\ vec'[x].l = vec[x].l
               /\ vec'[x].T = vec[x].T
               /\ Len(vec'[x].m_array) = vec[x].l
               /\ vec'[x].m_array[call'.p + 1] = call'.k
               /\ \A i \in 1..vec[x].l :
                    i # call'.p + 1 => vec'[x].m_array[i] = vec[x].m_array[i]

\* C11 as stated: right after a copy the two vectors compare equal; a write
\* to one of them changes one element of that vector and nothing of the other
C11_CopyComparesEqual ==
    [][/\ (call'.op = "copy" /\ res'.kind = "none")
            => /\ vec'[call'.x] = vec[call'.x]
               /\ operator_eq(vec'[call'.x], vec'[call'.y])
       /\ WriteFrame]_vars

\* C11: right after a copy the two vectors hold the same elements, and
\* compare equal exactly when no element is a NaN; a write to one of them
\* changes one element of that vector and nothing of the other
C11_IndependentCopy ==
    [][/\ (call'.op = "copy" /\ res'.kind = "none")
            => LET v == vec[call'.x]
                   w == vec'[call'.y]
               IN  /\ vec'[call'.x] = v
                   /\ rank(w) = rank(v)
                   /\ \A i \in 0..(rank(v) - 1) : at(w, i) = at(v, i)
                   /\ operator_eq(v, w) <=> \A i \in 1..v.l : ~IsNaN(v.m_array[i])
       /\ WriteFrame]_vars

C11_Witness ==
    /\ call.op = "write"
    /\ res.kind = "none"
    /\ vec["a"].T = vec["b"].T
    /\ rank(vec["a"]) >= 2
    /\ \A i \in 1..rank(vec["a"]) :
         (vec["a"].m_array[i] = vec["b"].m_array[i]) <=> (i # call.p + 1)
    /\ \E i \in 1..rank(vec["a"]) :
         i # call.p + 1 /\ vec["a"].m_array[i] # Zero(vec["a"].T)

\* the elements arr[k..], each preceded by ", "
RECURSIVE Separated(_, _)
Separated(arr, k) ==
    IF k > Len(arr) THEN <<>>
    ELSE insert_value(<<",", " ">>, arr[k]) \o Separated(arr, k + 1)

\* C12: streaming a vector of length N >= 2 appends "{ ", the elements in
\* index order separated by ", ", and " }"; the vector is left unchanged;
\* the vector 1, 2, 3 renders as { 1, 2, 3 }
C12_VectorText ==
    [][(call'.op = "stream" /\ rank(vec[call'.x]) >= 2)
        => LET v == vec[call'.x]
           IN  /\ res'.kind = "text"
               /\ res'.text = call'.args \o <<"{", " ">>
                                \o insert_value(<<>>, v.m_array[1])
                                \o Separated(v.m_array, 2) \o <<" ", "}">>
               /\ stream_vector(<<>>, Vec(3, "int", <<Int_(1), Int_(2), Int_(3)>>))
                    = <<"{", " ", "1", ",", " ", "2", ",", " ", "3", " ", "}">>
               /\ vec' = vec]_vars

C12_Witness ==
    /\ call.op = "stream"
    /\ rank(vec[call.x]) >= 2
    /\ res.text = <<"{", " ", "0", ".", "5", ",", " ", "n", "a", "n", " ", "}">>

\* a row as '{', its entries separated by ", ", '}'
RowText(r) == <<"{">> \o insert_value(<<>>, r[1]) \o Separated(r, 2) \o <<"}">>

\* the rows arr[k..], each preceded by ",\n"
RECURSIVE RowsAfter(_, _)
RowsAfter(arr, k) ==
    IF k > Len(arr) THEN <<>>
    ELSE <<",", "\n">> \o RowText(arr[k]) \o RowsAfter(arr, k + 1)

\* C13: streaming a matrix appends '{', the rows in order, each as '{' + its
\* entries separated by ", " + '}', with ",\n" between consecutive rows, and
\* a closing '}'; the matrix is left unchanged
C13_MatrixText ==
    [][call'.op = "stream_matrix"
        => /\ res'.kind = "text"
           /\ res'.text = call'.args \o <<"{">> \o RowText(mat.m_array[1])
                            \o RowsAfter(mat.m_array, 2) \o <<"}">>
           /\ mat' = mat]_vars

\* -a is a new vector of the length and type of a holding -a[i]; a is left
\* unchanged
NegFrame ==
    call'.op = "neg"
        => LET v == vec[call'.x]
               r == res'.vec
           IN  /\ res'.kind = "vector"
               /\ rank(r) = rank(v)
               /\ Len(r.m_array) = rank(v)
               /\ r.T = v.T
               /\ \A i \in 1..v.l :
                    /\ r.m_array[i].ty = v.T
                    /\ r.m_array[i].d = v.m_array[i].d
                    /\ r.m_array[i].n + v.m_array[i].n = 0
               /\ vec' = vec

====
